---- MODULE Spec2Model ----
(***************************************************************************)
(* Model of scale_api.py: discovery of the serial scale (find_usb_scale),  *)
(* the frame parser (parse_scale_data), the reading service                *)
(* (read_usb_scale_data) and the HTTP endpoint GET /read-scale             *)
(* (read_scale), served by Flask on its own thread; and of get_ngrok_url of *)
(* api_script.py, which asks the local tunnel manager for the public URL.  *)
(*                                                                         *)
(* A decoded line is a sequence of one-character strings.  The character   *)
(* "u3" stands for a non-ASCII Unicode decimal digit (such as U+0663),     *)
(* which the regex class \d matches and the class [0-9] does not.          *)
(***************************************************************************)
EXTENDS Integers, Sequences, FiniteSets, TLC

\* ---------------------------------------------------------------- bounds
MaxLineLen == 1      \* longest line the serial layer delivers in Spec
MaxRawLen == 4       \* longest line of the mock device in SpecMock
MaxPort == 2         \* serial ports of the host (COM1..COM255 in the source)
NumThreads == 2      \* request threads of the HTTP server
MaxTunnels == 2      \* longest list of tunnels the manager reports

\* ------------------------------------------------------------ characters
AsciiDigits == {"0", "5"}
UnicodeDigits == {"u3"}
Whitespace == {" "}
Chars == AsciiDigits \cup UnicodeDigits \cup Whitespace \cup {".", "g", "k"}

RECURSIVE LinesUpTo(_)
LinesUpTo(n) ==
    IF n = 0 THEN {<<>>}
    ELSE LET shorter == LinesUpTo(n - 1)
         IN shorter \cup {Append(s, c) : s \in {t \in shorter : Len(t) = n - 1}, c \in Chars}

\* ---------------------------------------------------- parse_scale_data
\* \d of a str pattern: any Unicode decimal digit.
IsDigit(c) == c \in AsciiDigits \cup UnicodeDigits

\* [0-9]
IsAsciiDigit(c) == c \in AsciiDigits

Drop(s, n) == SubSeq(s, n + 1, Len(s))

\* Length of the longest prefix of s whose characters all satisfy the class.
RECURSIVE NonDigitRun(_)
NonDigitRun(s) ==
    IF s = <<>> \/ IsDigit(Head(s)) THEN 0 ELSE 1 + NonDigitRun(Tail(s))

RECURSIVE DigitRun(_)
DigitRun(s) ==
    IF s = <<>> \/ ~IsAsciiDigit(Head(s)) THEN 0 ELSE 1 + DigitRun(Tail(s))

RECURSIVE SpaceRun(_)
SpaceRun(s) ==
    IF s = <<>> \/ Head(s) \notin Whitespace THEN 0 ELSE 1 + SpaceRun(Tail(s))

\* re.sub(r'^[^\d]*', '', raw_data)
StripPrefix(s) == Drop(s, NonDigitRun(s))

\* Variant with a plausible defect: the letters of kg and lb survive the filter.
MutKeepUnitLetters(c) == IsAsciiDigit(c) \/ c \in {".", "g", "k", "l", "b"}

KeepChar(c) == IsAsciiDigit(c) \/ c = "." \/ c = "g"

\* re.sub(r'[^0-9\.g]', '', cleaned_data)
FilterChars(s) == SelectSeq(s, KeepChar)

Reverse(s) == [i \in 1..Len(s) |-> s[Len(s) + 1 - i]]

\* str.strip()
Strip(s) ==
    LET t == Drop(s, SpaceRun(s))
    IN SubSeq(t, 1, Len(t) - SpaceRun(Reverse(t)))

Cleaned(raw) == Strip(FilterChars(StripPrefix(raw)))

StartsWithSeq(s, p) == Len(s) >= Len(p) /\ SubSeq(s, 1, Len(p)) = p

\* (g|kg|lb)? at the head of s: the first alternative that matches, or none.
UnitGroup(s) ==
    IF StartsWithSeq(s, <<"g">>) THEN "g"
    ELSE IF StartsWithSeq(s, <<"k", "g">>) THEN "kg"
    ELSE IF StartsWithSeq(s, <<"l", "b">>) THEN "lb"
    ELSE "none"

\* re.match(r'([0-9]+(?:\.[0-9]+)?)\s*(g|kg|lb)?', cleaned_data):
\* group 1 and group 2, or no match.
Match(s) ==
    LET n1 == DigitRun(s)
        afterInt == Drop(s, n1)
        n2 == IF afterInt # <<>> /\ Head(afterInt) = "." THEN DigitRun(Tail(afterInt)) ELSE 0
        numLen == IF n2 > 0 THEN n1 + 1 + n2 ELSE n1
        rest == Drop(s, numLen)
    IN IF n1 = 0 THEN [matched |-> FALSE]
       ELSE [matched |-> TRUE,
             group1 |-> SubSeq(s, 1, numLen),
             group2 |-> UnitGroup(Drop(rest, SpaceRun(rest)))]

DigitVal(c) ==
    CASE c = "0" -> 0 [] c = "1" -> 1 [] c = "2" -> 2 [] c = "3" -> 3 [] c = "4" -> 4
      [] c = "5" -> 5 [] c = "6" -> 6 [] c = "7" -> 7 [] c = "8" -> 8 [] c = "9" -> 9

RECURSIVE DigitsToNat(_)
DigitsToNat(s) ==
    IF s = <<>> THEN 0
    ELSE 10 * DigitsToNat(SubSeq(s, 1, Len(s) - 1)) + DigitVal(s[Len(s)])

\* The number num / 10^exp in lowest decimal terms: equal numbers get equal
\* representations (5.0 and 5 and 05 are one float).
RECURSIVE Normalize(_, _)
Normalize(num, exp) ==
    IF exp > 0 /\ num % 10 = 0 THEN Normalize(num \div 10, exp - 1)
    ELSE [num |-> num, exp |-> exp]

\* float(weight) of a digits[.digits] text.
ToFloat(s) ==
    LET n1 == DigitRun(s)
        frac == IF n1 < Len(s) THEN Drop(s, n1 + 1) ELSE <<>>
    IN Normalize(DigitsToNat(SubSeq(s, 1, n1) \o frac), Len(frac))

\* parse_scale_data(raw_data): (weight, unit), or (None, None).
MutParseDefaultZero(raw) ==
    LET m == Match(Cleaned(raw))
    IN IF m.matched
       THEN [ok |-> TRUE, weight |-> ToFloat(m.group1),
             unit |-> IF m.group2 # "none" THEN m.group2 ELSE "g"]
       ELSE [ok |-> TRUE, weight |-> Normalize(0, 0), unit |-> "g"]

parse_scale_data(raw) ==
    LET m == Match(Cleaned(raw))
    IN IF m.matched
       THEN [ok |-> TRUE, weight |-> ToFloat(m.group1),
             unit |-> IF m.group2 # "none" THEN m.group2 ELSE "g"]
       ELSE [ok |-> FALSE]

\* ------------------------------------------------------------------ state
VARIABLES
    platform,   \* os.name: "nt" or "posix"
    dev,        \* per serial port: "absent", "busy" (open raises) or "ready"
    feed,       \* the serial layer: a static device that answers every read
                \* with one line, or one that may do anything
    pc,         \* per request thread: where it is in read_scale
    cands,      \* per thread: the entries find_usb_scale's loop has still to visit
    ser,        \* per thread: the port of the local handle (ser / scale), 0 = None
    line,       \* per thread: the decoded, stripped data line, once read
    rd,         \* per thread: what the data readline did
    ret,        \* per thread: what read_usb_scale_data returned or raised
    resp,       \* per thread: the HTTP response
    tries,      \* per thread: opens attempted on each port during this request
    finds,      \* per thread: calls of find_usb_scale during this request
    probes,     \* per thread: probe tokens written during this request
    opens,      \* per thread: ports opened during this request
    stable,     \* per thread: the device was static during the whole request
    prev,       \* outcome of the request completed last
    prevStatic, \* response of the request completed last, if it and everything
                \* since ran against the same static device
    manager,    \* what the tunnel manager at 127.0.0.1:4040 does with a request
    info        \* what get_ngrok_url did last, and the manager's answer it saw

vars == <<platform, dev, feed, pc, cands, ser, line, rd, ret, resp,
          tries, finds, probes, opens, stable, prev, prevStatic, manager, info>>

envVars == <<platform, dev, feed>>
tunnelVars == <<manager, info>>
callVars == <<cands, ser, line, rd, ret, resp, tries, finds, probes, opens>>

Threads == 1..NumThreads
Ports == 1..MaxPort
DeviceLines == LinesUpTo(MaxLineLen)

\* Readings that carry one of the unit tokens of the pattern: g, kg, lb.
UnitLines ==
    {n \o s \o u : n \in {<<"5">>, <<"0", ".", "5">>},
                   s \in {<<>>, <<" ">>},
                   u \in {<<"g">>, <<"k", "g">>, <<"l", "b">>}}

MockLines == LinesUpTo(MaxRawLen) \cup UnitLines

AllIn(s, S) == \A i \in 1..Len(s) : s[i] \in S

\* digits, optionally a decimal point and more digits
IsNumeral(s) ==
    \E k \in 1..Len(s) :
        /\ AllIn(SubSeq(s, 1, k), AsciiDigits)
        /\ \/ k = Len(s)
           \/ /\ k + 1 < Len(s)
              /\ s[k + 1] = "."
              /\ AllIn(SubSeq(s, k + 2, Len(s)), AsciiDigits)

\* The lines of a working scale: a numeral, optional whitespace, the unit g.
IsScaleLine(s) ==
    \E k \in 1..Len(s) :
        /\ IsNumeral(SubSeq(s, 1, k))
        /\ \/ k = Len(s)
           \/ /\ s[Len(s)] = "g"
              /\ AllIn(SubSeq(s, k + 1, Len(s) - 1), Whitespace)

ScaleLines == {l \in DeviceLines : IsScaleLine(l)}

NoLine == <<>>
NoRet == [kind |-> "none"]
NoResp == [status |-> 0]
NoPrev == [kind |-> "none"]
NoPrevStatic == [some |-> FALSE]
AnyFeed == [static |-> FALSE, line |-> NoLine]
StaticFeed(l) == [static |-> TRUE, line |-> l]

\* In Spec the device on the line is a working scale that answers every read
\* with one well-formed line, or a device that may do anything.
Feeds == {AnyFeed} \cup {StaticFeed(l) : l \in ScaleLines}

\* ---------------------------------------------------------- device names
\* f'COM{port}'
ComName(p) == [prefix |-> "COM", n |-> p]

\* The serial device files of /dev: ttyUSB0, ttyACM0, ttyUSB1, ...
DevName(p) == [prefix |-> IF p % 2 = 1 THEN "ttyUSB" ELSE "ttyACM", n |-> (p - 1) \div 2]

\* An entry of /dev that is no serial device.
Console == [prefix |-> "tty", n |-> 0]

PortOf(e) ==
    CASE e.prefix = "COM" -> e.n
      [] e.prefix = "ttyUSB" -> 2 * e.n + 1
      [] e.prefix = "ttyACM" -> 2 * e.n + 2
      [] OTHER -> 0

\* dev.startswith('ttyUSB') or dev.startswith('ttyACM')
IsSerialName(e) == e.prefix = "ttyUSB" \/ e.prefix = "ttyACM"

\* range(1, 256), cut to the ports of the model
ComRange == {ComName(i) : i \in 1..MaxPort}

DevEntries == {DevName(p) : p \in {q \in Ports : dev[q] # "absent"}} \cup {Console}

\* The entries a loop may visit next.  range() yields the ports in ascending
\* order; os.listdir() yields the entries in arbitrary order, so any entry not
\* yet visited may be the next one.
NextEntries(S) ==
    IF platform = "nt" THEN {e \in S : \A f \in S : e.n <= f.n} ELSE S

\* What one readline() on an open port can do: deliver a line, time out with
\* no bytes, deliver bytes that are not UTF-8, or raise SerialException.
ReadOutcomes ==
    IF feed.static THEN {[kind |-> "line", text |-> feed.line]}
    ELSE {[kind |-> "line", text |-> l] : l \in DeviceLines}
         \cup {[kind |-> k, text |-> NoLine] : k \in {"timeout", "badbytes", "raise"}}

\* ------------------------------------------------------------- responses
NotFoundResult == [result |-> [error |-> <<"USB scale not found">>], status |-> 404]
ParseFailResult ==
    [result |-> [error |-> <<"Failed to parse weight from scale data">>], status |-> 500]
ErrorResult(detail) ==
    [result |-> [error |-> <<"Error reading scale: ", detail>>], status |-> 500]
SuccessResult(p) == [result |-> [weight |-> p.weight, unit |-> p.unit], status |-> 200]

Returned(r) == [kind |-> "return", result |-> r.result, status |-> r.status]
Raised(exc) == [kind |-> "raise", exc |-> exc]

\* Variants of lines 85-92 with a plausible defect: a default reading where no
\* line parsed; a receive buffer that is not cleared between requests.
MutFabricateWeight(o) ==
    CASE o.kind = "raise" -> ErrorResult("SerialException")
      [] o.kind = "badbytes" -> ErrorResult("UnicodeDecodeError")
      [] OTHER -> SuccessResult(MutParseDefaultZero(Strip(o.text)))

MutReadResultBuffered(o) ==
    CASE o.kind = "raise" -> ErrorResult("SerialException")
      [] o.kind = "badbytes" -> ErrorResult("UnicodeDecodeError")
      [] OTHER ->
           LET text == IF prevStatic.some THEN o.text \o o.text ELSE o.text
               p == parse_scale_data(Strip(text))
           IN IF p.ok THEN SuccessResult(p) ELSE ParseFailResult

\* parse_scale_data is a pure function: its value on every line of the model.
ParseOf == [l \in MockLines |-> parse_scale_data(l)]

\* Lines 85-92 of read_usb_scale_data, given what scale.readline() did.
ReadResult(o) ==
    CASE o.kind = "raise" -> ErrorResult("SerialException")
      [] o.kind = "badbytes" -> ErrorResult("UnicodeDecodeError")
      [] OTHER ->
           LET p == ParseOf[Strip(o.text)]
           IN IF p.ok THEN SuccessResult(p) ELSE ParseFailResult

\* return jsonify(result), status; an exception that read_scale lets through
\* is answered by Flask with its own 500 page.
HttpResponse(r) ==
    IF r.kind = "return" THEN [status |-> r.status, body |-> r.result]
    ELSE [status |-> 500, body |-> [html |-> "Internal Server Error"]]

\* The typed outcome a result stands for.
OutcomeOf(r) ==
    CASE r.kind = "raise" -> "Raised"
      [] r.kind = "none" -> "none"
      [] r.status = 200 -> "Success"
      [] r.status = 404 -> "DeviceNotFound"
      [] r.result.error[1] = "Error reading scale: " -> "IOError"
      [] OTHER -> "ParseFailure"

\* ---------------------------------------------------------- get_ngrok_url
\* A public URL is the sequence of its parts: scheme, "://", first label of the
\* host, rest of the host.
HttpsUrl == <<"https", "://", "abc", ".ngrok.io">>
HttpUrl == <<"http", "://", "abc", ".ngrok.io">>
\* An insecure tunnel whose host name has the letters https in it.
HttpNamedUrl == <<"http", "://", "httpsbox", ".ngrok.io">>
Urls == {HttpsUrl, HttpUrl, HttpNamedUrl}

\* The parts that have the substring "https".
HttpsParts == {"https", "httpsbox"}

\* "https" in public_url
ContainsHttps(url) == \E i \in 1..Len(url) : url[i] \in HttpsParts

\* full_url.split("//")[-1].split(".")[0]
Subdomain(url) == url[3]

\* An element of the list "tunnels": an object with a public_url string, an
\* object without that key, an object whose public_url is null, or a JSON
\* value that is no object.
TunnelEntries ==
    {[shape |-> "url", public_url |-> u] : u \in Urls}
    \cup {[shape |-> sh, public_url |-> <<>>] : sh \in {"noUrl", "nullUrl", "notObject"}}

RECURSIVE TunnelListsUpTo(_)
TunnelListsUpTo(n) ==
    IF n = 0 THEN {<<>>}
    ELSE LET shorter == TunnelListsUpTo(n - 1)
         IN shorter \cup {Append(l, e) : l \in {k \in shorter : Len(k) = n - 1},
                                           e \in TunnelEntries}

\* The body of a reply: text that is no JSON, a JSON array, an object without
\* the key "tunnels", an object whose "tunnels" is null, or an object with a
\* list of tunnels.
Bodies ==
    {[shape |-> sh, tunnels |-> <<>>] : sh \in {"notJson", "array", "noTunnels", "nullTunnels"}}
    \cup {[shape |-> "list", tunnels |-> l] : l \in TunnelListsUpTo(MaxTunnels)}

\* requests.get(..., timeout=2) finds nobody listening or gets no answer in
\* time, or the manager replies.
Managers ==
    {[kind |-> k, status |-> 0, body |-> [shape |-> "notJson", tunnels |-> <<>>]] :
        k \in {"refused", "timeout"}}
    \cup {[kind |-> "reply", status |-> st, body |-> b] : st \in {200, 502}, b \in Bodies}

ManagerDown ==
    [kind |-> "refused", status |-> 0, body |-> [shape |-> "notJson", tunnels |-> <<>>]]

NoInfo == [kind |-> "none"]
TunnelInfo(url, status) == [kind |-> "return", url |-> url, status |-> status]
TunnelRaised(exc) == [kind |-> "raise", exc |-> exc]

\* for tunnel in tunnels.get("tunnels", []): ... return at the first public_url
\* with "https" in it; after the loop, not_found.
RECURSIVE ScanTunnels(_)
ScanTunnels(l) ==
    IF l = <<>> THEN TunnelInfo("Not found", "not_found")
    ELSE CASE Head(l).shape = "notObject" -> TunnelRaised("AttributeError")
           [] Head(l).shape = "nullUrl" -> TunnelRaised("TypeError")
           [] Head(l).shape = "noUrl" -> ScanTunnels(Tail(l))
           [] OTHER ->
                IF ContainsHttps(Head(l).public_url)
                THEN TunnelInfo(Subdomain(Head(l).public_url), "connected")
                ELSE ScanTunnels(Tail(l))

\* get_ngrok_url(), given what the manager does: the results it can have.
\* response.json() on text that is no JSON raises a JSONDecodeError, which is a
\* RequestException from requests 2.27 on and a plain ValueError before.
get_ngrok_url(m) ==
    IF m.kind # "reply" THEN {TunnelInfo("Not available", "offline")}
    ELSE IF m.status # 200 THEN {TunnelInfo("Not found", "not_found")}
    ELSE CASE m.body.shape = "notJson" ->
                {TunnelInfo("Not available", "offline"), TunnelRaised("ValueError")}
           [] m.body.shape = "array" -> {TunnelRaised("AttributeError")}
           [] m.body.shape = "nullTunnels" -> {TunnelRaised("TypeError")}
           [] m.body.shape = "noTunnels" -> {TunnelInfo("Not found", "not_found")}
           [] OTHER -> {ScanTunnels(m.body.tunnels)}

\* ------------------------------------------------------------------ init
InitCalls ==
    /\ pc = [t \in Threads |-> "idle"]
    /\ cands = [t \in Threads |-> {}]
    /\ ser = [t \in Threads |-> 0]
    /\ line = [t \in Threads |-> NoLine]
    /\ rd = [t \in Threads |-> "none"]
    /\ ret = [t \in Threads |-> NoRet]
    /\ resp = [t \in Threads |-> NoResp]
    /\ tries = [t \in Threads |-> [p \in Ports |-> 0]]
    /\ finds = [t \in Threads |-> 0]
    /\ probes = [t \in Threads |-> 0]
    /\ opens = [t \in Threads |-> 0]
    /\ stable = [t \in Threads |-> FALSE]
    /\ prev = NoPrev
    /\ prevStatic = NoPrevStatic
    /\ info = NoInfo

Init ==
    /\ platform \in {"nt", "posix"}
    /\ dev \in [Ports -> {"absent", "busy", "ready"}]
    /\ feed \in Feeds
    /\ manager = ManagerDown
    /\ InitCalls

\* --------------------------------------------------------------- actions
\* read_usb_scale_data returns or raises r, and read_scale answers the request:
\* result, status = read_usb_scale_data(); return jsonify(result), status
Answer(t, r) ==
    /\ ret' = [ret EXCEPT ![t] = r]
    /\ resp' = [resp EXCEPT ![t] = HttpResponse(r)]
    /\ pc' = [pc EXCEPT ![t] = "done"]

\* Variants of the start of a request with a plausible defect: a handle kept
\* from the last request that read a line; an absent device remembered.
MutReadScaleKeepHandle(t) ==
    /\ pc[t] = "idle"
    /\ stable' = [stable EXCEPT ![t] = feed.static]
    /\ IF prev.kind \in {"Success", "ParseFailure"}
       THEN /\ pc' = [pc EXCEPT ![t] = "read"]
            /\ UNCHANGED <<finds, cands>>
       ELSE /\ finds' = [finds EXCEPT ![t] = 1]
            /\ cands' = [cands EXCEPT ![t] = IF platform = "nt" THEN ComRange ELSE DevEntries]
            /\ pc' = [pc EXCEPT ![t] = "iter"]
    /\ UNCHANGED <<tunnelVars, envVars, ser, line, rd, ret, resp, tries, probes, opens, prev, prevStatic>>

MutReadScaleCacheAbsent(t) ==
    /\ pc[t] = "idle"
    /\ stable' = [stable EXCEPT ![t] = feed.static]
    /\ IF prev.kind = "DeviceNotFound"
       THEN /\ Answer(t, Returned(NotFoundResult))
            /\ UNCHANGED <<finds, cands>>
       ELSE /\ finds' = [finds EXCEPT ![t] = 1]
            /\ cands' = [cands EXCEPT ![t] = IF platform = "nt" THEN ComRange ELSE DevEntries]
            /\ pc' = [pc EXCEPT ![t] = "iter"]
            /\ UNCHANGED <<ret, resp>>
    /\ UNCHANGED <<tunnelVars, envVars, ser, line, rd, tries, probes, opens, prev, prevStatic>>

\* GET /read-scale arrives: read_scale calls read_usb_scale_data, which calls
\* find_usb_scale, which enumerates the candidates.
ReadScale(t) ==
    /\ pc[t] = "idle"
    /\ finds' = [finds EXCEPT ![t] = 1]
    /\ stable' = [stable EXCEPT ![t] = feed.static]
    /\ \/ /\ platform = "nt"
          /\ cands' = [cands EXCEPT ![t] = ComRange]
          /\ pc' = [pc EXCEPT ![t] = "iter"]
          /\ UNCHANGED <<ret, resp>>
       \/ /\ platform = "posix"
          /\ cands' = [cands EXCEPT ![t] = DevEntries]
          /\ pc' = [pc EXCEPT ![t] = "iter"]
          /\ UNCHANGED <<ret, resp>>
       \/ /\ platform = "posix"
          /\ ~feed.static
          /\ Answer(t, Raised("OSError"))
          /\ UNCHANGED cands
    /\ UNCHANGED <<tunnelVars, envVars, ser, line, rd, tries, probes, opens, prev, prevStatic>>

\* for dev in os.listdir('/dev'): the name is not a serial device's.
SkipEntry(t) ==
    /\ pc[t] = "iter"
    /\ platform = "posix"
    /\ \E e \in NextEntries(cands[t]) :
         /\ ~IsSerialName(e)
         /\ cands' = [cands EXCEPT ![t] = @ \ {e}]
    /\ UNCHANGED <<tunnelVars, envVars, pc, ser, line, rd, ret, resp, tries, finds, probes,
                   opens, stable, prev, prevStatic>>

\* The entries whose port the loop may try to open next.
Candidates(t) ==
    IF pc[t] = "iter"
    THEN {e \in NextEntries(cands[t]) : platform = "posix" => IsSerialName(e)}
    ELSE {}

\* serial.Serial(...) on port p succeeds for t: a device is there and no other
\* program has claimed it.  On Windows a COM port is opened exclusively, so a
\* port another request has open cannot be opened; a device file of /dev can be
\* opened any number of times.
CanOpen(t, p) ==
    /\ dev[p] = "ready"
    /\ platform = "nt" => \A u \in Threads \ {t} : ser[u] # p

\* serial.Serial(...) raises SerialException: continue with the next one.
OpenFail(t) ==
    /\ \E e \in Candidates(t) :
         /\ ~CanOpen(t, PortOf(e))
         /\ tries' = [tries EXCEPT ![t][PortOf(e)] = @ + 1]
         /\ cands' = [cands EXCEPT ![t] = @ \ {e}]
    /\ UNCHANGED <<tunnelVars, envVars, pc, ser, line, rd, ret, resp, finds, probes,
                   opens, stable, prev, prevStatic>>

\* serial.Serial(...) opens the port; ser.is_open holds.
Open(t) ==
    /\ \E e \in Candidates(t) :
         /\ CanOpen(t, PortOf(e))
         /\ tries' = [tries EXCEPT ![t][PortOf(e)] = @ + 1]
         /\ ser' = [ser EXCEPT ![t] = PortOf(e)]
         /\ cands' = [cands EXCEPT ![t] = @ \ {e}]
    /\ opens' = [opens EXCEPT ![t] = @ + 1]
    /\ pc' = [pc EXCEPT ![t] = "write"]
    /\ UNCHANGED <<tunnelVars, envVars, line, rd, ret, resp, finds, probes, stable, prev, prevStatic>>

\* ser.write(b'CHECK')
ProbeWrite(t) ==
    /\ pc[t] = "write"
    /\ \/ /\ probes' = [probes EXCEPT ![t] = @ + 1]
          /\ pc' = [pc EXCEPT ![t] = "probe"]
       \/ /\ ~feed.static          \* SerialException: continue
          /\ pc' = [pc EXCEPT ![t] = "iter"]
          /\ UNCHANGED probes
    /\ UNCHANGED <<tunnelVars, envVars, cands, ser, line, rd, ret, resp, tries, finds,
                   opens, stable, prev, prevStatic>>

\* data = ser.readline().decode('utf-8').strip(); return ser
ProbeRead(t) ==
    /\ pc[t] = "probe"
    /\ \E o \in ReadOutcomes :
         \/ /\ o.kind \in {"line", "timeout"}
            /\ pc' = [pc EXCEPT ![t] = "read"]
            /\ UNCHANGED <<ret, resp, ser, cands>>
         \/ /\ o.kind = "raise"                \* SerialException: continue
            /\ pc' = [pc EXCEPT ![t] = "iter"]
            /\ UNCHANGED <<ret, resp, ser, cands>>
         \/ /\ o.kind = "badbytes"             \* UnicodeDecodeError is not caught
            /\ Answer(t, Raised("UnicodeDecodeError"))
            /\ ser' = [ser EXCEPT ![t] = 0]
            /\ cands' = [cands EXCEPT ![t] = {}]
    /\ UNCHANGED <<tunnelVars, envVars, line, rd, tries, finds, probes,
                   opens, stable, prev, prevStatic>>

\* Variant with a plausible defect: one more round of discovery before giving up.
MutNotFoundRetry(t) ==
    /\ pc[t] = "iter"
    /\ cands[t] = {}
    /\ IF finds[t] < 2
       THEN /\ finds' = [finds EXCEPT ![t] = @ + 1]
            /\ cands' = [cands EXCEPT ![t] = IF platform = "nt" THEN ComRange ELSE DevEntries]
            /\ UNCHANGED <<pc, ret, resp, ser>>
       ELSE /\ Answer(t, Returned(NotFoundResult))
            /\ ser' = [ser EXCEPT ![t] = 0]
            /\ UNCHANGED <<finds, cands>>
    /\ UNCHANGED <<tunnelVars, envVars, line, rd, tries, probes, opens, stable, prev, prevStatic>>

\* Every candidate was visited: find_usb_scale returns None, and
\* read_usb_scale_data answers 404.
NotFound(t) ==
    /\ pc[t] = "iter"
    /\ cands[t] = {}
    /\ Answer(t, Returned(NotFoundResult))
    /\ ser' = [ser EXCEPT ![t] = 0]
    /\ UNCHANGED <<tunnelVars, envVars, cands, line, rd, tries, finds, probes,
                   opens, stable, prev, prevStatic>>

\* The try block of read_usb_scale_data: read one line, parse it, answer.
ReadData(t) ==
    /\ pc[t] = "read"
    /\ \E o \in ReadOutcomes :
         /\ rd' = [rd EXCEPT ![t] = o.kind]
         /\ line' = [line EXCEPT ![t] = IF o.kind = "line" THEN Strip(o.text) ELSE NoLine]
         /\ Answer(t, Returned(ReadResult(o)))
    /\ ser' = [ser EXCEPT ![t] = 0]
    /\ cands' = [cands EXCEPT ![t] = {}]
    /\ UNCHANGED <<tunnelVars, envVars, tries, finds, probes, opens, stable, prev, prevStatic>>

\* The client has the response; the thread is free for the next request.
Complete(t) ==
    /\ pc[t] = "done"
    /\ prev' = [kind |-> OutcomeOf(ret[t])]
    /\ prevStatic' = IF stable[t] THEN [some |-> TRUE, resp |-> resp[t]] ELSE NoPrevStatic
    /\ pc' = [pc EXCEPT ![t] = "idle"]
    /\ line' = [line EXCEPT ![t] = NoLine]
    /\ rd' = [rd EXCEPT ![t] = "none"]
    /\ ret' = [ret EXCEPT ![t] = NoRet]
    /\ resp' = [resp EXCEPT ![t] = NoResp]
    /\ tries' = [tries EXCEPT ![t] = [p \in Ports |-> 0]]
    /\ finds' = [finds EXCEPT ![t] = 0]
    /\ probes' = [probes EXCEPT ![t] = 0]
    /\ opens' = [opens EXCEPT ![t] = 0]
    /\ stable' = [stable EXCEPT ![t] = FALSE]
    /\ UNCHANGED <<tunnelVars, envVars, cands, ser>>

\* A device is plugged in, unplugged, claimed or released by another program.
Replug(p) ==
    /\ \E s \in {"absent", "busy", "ready"} \ {dev[p]} : dev' = [dev EXCEPT ![p] = s]
    /\ stable' = [t \in Threads |-> FALSE]
    /\ prevStatic' = NoPrevStatic
    /\ UNCHANGED <<tunnelVars, platform, feed, pc, callVars, prev>>

\* The device on the line is exchanged for one that behaves differently.  A
\* device that changes its behaviour while a request runs is the device that
\* may do anything.
SwitchFeed ==
    /\ \A t \in Threads : pc[t] = "idle"
    /\ \E f \in Feeds \ {feed} : feed' = f
    /\ stable' = [t \in Threads |-> FALSE]
    /\ prevStatic' = NoPrevStatic
    /\ UNCHANGED <<tunnelVars, platform, dev, pc, callVars, prev>>

Step(t) ==
    \/ SkipEntry(t)
    \/ OpenFail(t)
    \/ Open(t)
    \/ ProbeWrite(t)
    \/ ProbeRead(t)
    \/ NotFound(t)
    \/ ReadData(t)
    \/ Complete(t)

\* The thread that serves the polling client.
Poller == CHOOSE t \in Threads : TRUE

\* Requests arrive one at a time (a single polling client).
Next ==
    \/ ReadScale(Poller)
    \/ Step(Poller)
    \/ \E p \in Ports : Replug(p)
    \/ SwitchFeed

Spec == Init /\ [][Next]_vars

\* A static mock device: attached to the first port or to none, answering every
\* read with the same line, whatever that line is.
InitMock ==
    /\ platform \in {"nt", "posix"}
    /\ dev \in {[p \in Ports |-> "absent"],
                [p \in Ports |-> IF p = 1 THEN "ready" ELSE "absent"]}
    /\ feed \in {StaticFeed(l) : l \in MockLines}
    /\ manager = ManagerDown
    /\ InitCalls

NextMock ==
    \/ ReadScale(Poller)
    \/ Step(Poller)

SpecMock == InitMock /\ [][NextMock]_vars

\* Flask serves every request on a thread of its own (app.run, threaded by
\* default), and read_scale takes no lock: requests from several clients run
\* interleaved.  The devices are working scales that stay as they are.
InitConc ==
    /\ platform \in {"nt", "posix"}
    /\ dev \in [Ports -> {"absent", "ready"}]
    /\ feed \in {StaticFeed(l) : l \in ScaleLines}
    /\ manager = ManagerDown
    /\ InitCalls

NextConc == \E t \in Threads : ReadScale(t) \/ Step(t)

SpecConc == InitConc /\ [][NextConc]_vars

\* The GUI's timer calls get_ngrok_url().
GetNgrokUrl ==
    /\ \E o \in get_ngrok_url(manager) :
         info' = [kind |-> o.kind, of |-> manager, out |-> o]
    /\ UNCHANGED <<envVars, pc, callVars, stable, prev, prevStatic, manager>>

\* The tunnel manager is started or stopped, or its tunnels change.
ManagerChanges ==
    /\ \E m \in Managers \ {manager} : manager' = m
    /\ UNCHANGED <<envVars, pc, callVars, stable, prev, prevStatic, info>>

\* The tunnel info provider alone, with no scale attached.
InitTunnel ==
    /\ platform = "posix"
    /\ dev = [p \in Ports |-> "absent"]
    /\ feed = AnyFeed
    /\ manager \in Managers
    /\ InitCalls

NextTunnel == GetNgrokUrl \/ ManagerChanges

SpecTunnel == InitTunnel /\ [][NextTunnel]_vars

\* The polling client keeps sending requests and every blocking serial call
\* returns within its timeout, so a request in progress always advances.
SpecPoll == Spec /\ WF_vars(ReadScale(Poller) \/ Step(Poller))

\* ================================================================ claims
Done(t) == pc[t] = "done"
HasWeight(t) == Done(t) /\ "weight" \in DOMAIN resp[t].body
ParseFailBody == [error |-> <<"Failed to parse weight from scale data">>]
NotFoundBody == [error |-> <<"USB scale not found">>]
NonDigits == Chars \ AsciiDigits

\* The value of a numeral, from its digits and the place of its point.
NumeralValue(s) ==
    LET point == {i \in 1..Len(s) : s[i] = "."}
        fracLen == IF point = {} THEN 0 ELSE Len(s) - (CHOOSE i \in point : TRUE)
    IN Normalize(DigitsToNat(SelectSeq(s, IsAsciiDigit)), fracLen)

\* The cleaned text of l starts with a numeral.
MatchesNumericPattern(l) ==
    \E k \in 1..Len(Cleaned(l)) : IsNumeral(SubSeq(Cleaned(l), 1, k))

\* The status and body section 4.5 documents for the four outcomes.
Documented(r) ==
    \/ r.status = 200 /\ DOMAIN r.body = {"weight", "unit"}
    \/ r.status = 404 /\ r.body = NotFoundBody
    \/ r.status = 500 /\ r.body = ParseFailBody
    \/ /\ r.status = 500
       /\ DOMAIN r.body = {"error"}
       /\ Len(r.body.error) = 2
       /\ r.body.error[1] = "Error reading scale: "

\* C1: every response of GET /read-scale is one of the four documented
\* status/body combinations (200 {weight, unit}; 404 "USB scale not found";
\* 500 "Failed to parse weight from scale data"; 500 "Error reading scale:
\* <detail>"), and no other combination is ever produced.
C1_OnlyDocumentedResponses == \A t \in Threads : Done(t) => Documented(resp[t])

\* C2: a response carries a weight only if this request read a line from a port
\* it opened and that line matched the numeric pattern; the weight is the value
\* of the matched numeral.  A timeout, a failed read, undecodable bytes or an
\* absent device never yield a weight.
C2_WeightOnlyFromMatchedLine ==
    \A t \in Threads :
        HasWeight(t) =>
            /\ rd[t] = "line"
            /\ opens[t] >= 1
            /\ MatchesNumericPattern(line[t])
            /\ \E k \in 1..Len(Cleaned(line[t])) :
                 /\ IsNumeral(SubSeq(Cleaned(line[t]), 1, k))
                 /\ resp[t].body.weight = NumeralValue(SubSeq(Cleaned(line[t]), 1, k))

C2_Witness == \E t \in Threads : HasWeight(t) /\ resp[t].status = 200 /\ rd[t] = "line"

\* C3: every call ends by returning one of the four typed outcomes; no
\* exception escapes from discovery or reading to the HTTP layer.
C3_NoExceptionEscapes ==
    \A t \in Threads :
        Done(t) =>
            /\ ret[t].kind = "return"
            /\ OutcomeOf(ret[t]) \in {"Success", "DeviceNotFound", "ParseFailure", "IOError"}

\* C4: a call in which the candidates were enumerated and none of them could be
\* opened answers DeviceNotFound (404 with the documented body), after one
\* discovery that tried each port at most once.
C4_NotFoundWithoutRetry ==
    \A t \in Threads :
        (Done(t) /\ opens[t] = 0 /\ ret[t].kind = "return") =>
            /\ resp[t] = [status |-> 404, body |-> NotFoundBody]
            /\ OutcomeOf(ret[t]) = "DeviceNotFound"
            /\ finds[t] = 1
            /\ \A p \in Ports : tries[t][p] <= 1

C4_Witness ==
    \E t \in Threads :
        /\ Done(t) /\ opens[t] = 0 /\ resp[t].status = 404
        /\ \E p \in Ports : tries[t][p] = 1

\* C5: whenever the read of the data line raises or times out, the call returns
\* IOError and holds no handle afterwards.
C5_FailedReadIsIOError ==
    \A t \in Threads :
        (Done(t) /\ rd[t] \in {"raise", "timeout"}) =>
            /\ OutcomeOf(ret[t]) = "IOError"
            /\ ser[t] = 0

ScaleAttached(t) == stable[t] /\ \E p \in Ports : dev[p] = "ready"

C7_Recovers ==
    \A t \in Threads :
        (Done(t) /\ ScaleAttached(t) /\ prev.kind \in {"DeviceNotFound", "IOError"}) =>
            /\ finds[t] = 1
            /\ opens[t] >= 1
            /\ resp[t].status = 200
            /\ OutcomeOf(ret[t]) = "Success"

\* C7: absence is not cached.  A call made after DeviceNotFound or IOError,
\* with a working scale attached during the whole call, runs discovery and
\* returns Success; and under periodic polling, once a working scale stays
\* attached to some port, Success is returned again and again.
C7_NoCachedAbsence ==
    /\ []C7_Recovers
    /\ \A p \in Ports :
         <>[](feed.static /\ dev[p] = "ready") =>
             []<>(\E t \in Threads : Done(t) /\ resp[t].status = 200)

C7_Witness ==
    \E t \in Threads :
        /\ Done(t) /\ ScaleAttached(t) /\ prev.kind \in {"DeviceNotFound", "IOError"}
        /\ resp[t].status = 200

\* The line is a prefix of non-digits, a numeral from a + 1 to b, whitespace,
\* and a final g.
IsPrefixedReading(l, a, b) ==
    /\ AllIn(SubSeq(l, 1, a), NonDigits)
    /\ IsNumeral(SubSeq(l, a + 1, b))
    /\ AllIn(SubSeq(l, b + 1, Len(l) - 1), Whitespace)
    /\ l[Len(l)] = "g"

\* C8: for every raw line made of a prefix of non-digit characters, a numeral,
\* optional whitespace and a trailing g, parse returns the numeral's value with
\* unit g.
C8_PrefixedReadingParses ==
    \A t \in Threads :
        (Done(t) /\ rd[t] = "line") =>
            \A a \in 0..Len(line[t]), b \in 1..Len(line[t]) :
                (a < b /\ b < Len(line[t]) /\ IsPrefixedReading(line[t], a, b)) =>
                    /\ parse_scale_data(line[t]) =
                           [ok |-> TRUE,
                            weight |-> NumeralValue(SubSeq(line[t], a + 1, b)),
                            unit |-> "g"]
                    /\ resp[t].status = 200

\* C9: a raw line without any digit 0-9 (the empty line included) makes parse
\* fail and the call return ParseFailure, never a reading.
C9_NoDigitNoReading ==
    \A t \in Threads :
        (Done(t) /\ rd[t] = "line" /\ AllIn(line[t], NonDigits)) =>
            /\ ~parse_scale_data(line[t]).ok
            /\ OutcomeOf(ret[t]) = "ParseFailure"
            /\ resp[t] = [status |-> 500, body |-> ParseFailBody]

C9_Witness ==
    \E t \in Threads :
        /\ Done(t) /\ rd[t] = "line" /\ AllIn(line[t], NonDigits)
        /\ Len(line[t]) = MaxRawLen
        /\ \E i \in 1..Len(line[t]) : line[t][i] = "g"
        /\ resp[t].status = 500

\* C10: against a static device that answers every read with the same line, a
\* call answers exactly as the call before it did: the status, the value and
\* the unit do not depend on how many calls preceded.
C10_SameLineSameAnswer ==
    \A t \in Threads :
        (Done(t) /\ stable[t] /\ prevStatic.some) => resp[t] = prevStatic.resp

C10_Witness ==
    \E t \in Threads :
        /\ Done(t) /\ stable[t] /\ prevStatic.some
        /\ resp[t].status = 200 /\ resp[t].body.weight = Normalize(55, 1)

\* find_usb_scale has returned a handle to read_usb_scale_data.
HandleReturned(t) == pc[t] = "read" /\ ser[t] # 0

\* C12: discovery tries the candidates in enumeration order and returns the
\* handle of the first candidate whose open succeeds: a returned handle is that
\* of the only port opened, on the numbered-port platform every lower port was
\* tried before, and DeviceNotFound is answered only when no open succeeded.
C12_FirstOpenableReturned ==
    \A t \in Threads :
        /\ HandleReturned(t) => opens[t] = 1 /\ tries[t][ser[t]] = 1
        /\ (platform = "nt" /\ pc[t] # "idle") =>
               \A p, q \in Ports : (tries[t][p] >= 1 /\ q < p) => tries[t][q] = 1
        /\ (Done(t) /\ OutcomeOf(ret[t]) = "DeviceNotFound") => opens[t] = 0

\* The probe's readline came back to t, with bytes or with none, instead of
\* raising SerialException.
ProbeAnswered(t) == pc[t] = "probe" /\ pc'[t] \in {"read", "done"}

\* C13: a candidate whose open succeeded is accepted whatever the probe yields:
\* whenever the probe's readline comes back (the echo, no bytes before the
\* timeout, arbitrary or undecodable bytes), find_usb_scale returns the handle
\* of that candidate; it neither moves on nor fails.
C13_ProbeResponseIgnored ==
    [][\A t \in Threads :
          ProbeAnswered(t) => (pc'[t] = "read" /\ ser[t] # 0 /\ ser'[t] = ser[t])]_vars

\* C14: whenever parse returns a reading its unit is g.  The filter leaves only
\* digits, '.' and g, so the letters k, l and b never reach the unit match, the
\* tokens kg and lb are never produced, and a missing unit token defaults to g.
C14_UnitAlwaysG ==
    \A t \in Threads :
        (Done(t) /\ rd[t] = "line") =>
            /\ AllIn(Cleaned(line[t]), AsciiDigits \cup {".", "g"})
            /\ parse_scale_data(line[t]).ok => parse_scale_data(line[t]).unit = "g"
            /\ HasWeight(t) => resp[t].body.unit = "g"

\* "5 kg" was read and answered with the value 5 and the unit g.
C14_Witness ==
    \E t \in Threads :
        /\ Done(t) /\ rd[t] = "line" /\ line[t] = <<"5", " ", "k", "g">>
        /\ resp[t] = [status |-> 200, body |-> [weight |-> Normalize(5, 0), unit |-> "g"]]

HasAsciiDigit(l) == \E i \in 1..Len(l) : l[i] \in AsciiDigits

\* The lengths of the prefixes of s that are numerals.
NumeralPrefixes(s) == {k \in 1..Len(s) : IsNumeral(SubSeq(s, 1, k))}

\* The leading digits[.digits] run of s: its longest prefix that is a numeral.
LeadingNumeral(s) ==
    SubSeq(s, 1, CHOOSE k \in NumeralPrefixes(s) : \A j \in NumeralPrefixes(s) : j <= k)

\* C17: parse fails only on lines without a digit.  Every raw line with at
\* least one digit 0-9 yields a reading whose value is the leading
\* digits[.digits] run of the cleaned text; what follows that run is ignored,
\* and the call answers Success.
C17_DigitLineParses ==
    \A t \in Threads :
        (Done(t) /\ rd[t] = "line" /\ HasAsciiDigit(line[t])) =>
            /\ NumeralPrefixes(Cleaned(line[t])) # {}
            /\ parse_scale_data(line[t]).ok
            /\ parse_scale_data(line[t]).weight = NumeralValue(LeadingNumeral(Cleaned(line[t])))
            /\ resp[t].status = 200

\* The ports on which a request has a serial connection open.  The source never
\* calls close(): a connection is closed when the last reference to it goes,
\* that is when ser is bound to another connection or the function returns.
OpenHandles == {t \in Threads : ser[t] # 0}

\* t opens a port in this step.
OpensPort(t) == opens'[t] > opens[t]

\* C16: at most one Device Handle is open at any time, and a handle that was
\* discarded is closed before discovery opens its replacement: whenever a port
\* is opened, no connection opened earlier is still open.
C16_ClosedBeforeReplacement ==
    /\ [](Cardinality(OpenHandles) <= 1)
    /\ [][\A t \in Threads : OpensPort(t) => OpenHandles = {}]_vars

\* t has a serial connection open and is about to write to it or read from it.
Accessing(t) == ser[t] # 0 /\ pc[t] \in {"write", "probe", "read"}

\* C15: in every interleaving of concurrent requests, no two requests in flight
\* have the same serial device open for writing or reading at the same time.
C15_OneRequestOnDevice ==
    \A t, u \in Threads : (t # u /\ Accessing(t) /\ Accessing(u)) => ser[t] # ser[u]

\* The manager answered the request info was computed from.
Reachable(m) == m.kind = "reply"

\* The manager's answer lists a tunnel whose public URL has the scheme https.
ListsSecure(m) ==
    /\ m.body.shape = "list"
    /\ \E i \in 1..Len(m.body.tunnels) :
         /\ m.body.tunnels[i].shape = "url"
         /\ m.body.tunnels[i].public_url[1] = "https"

\* C11: get_ngrok_url returns the state offline whenever the manager is
\* unreachable and not_found whenever it is reachable but lists no secure
\* tunnel; it returns connected only when a secure tunnel is listed; and it
\* never raises.
C11_DegradedNeverRaises ==
    info.kind # "none" =>
        /\ info.kind = "return"
        /\ ~Reachable(info.of) => info.out.status = "offline"
        /\ (Reachable(info.of) /\ ~ListsSecure(info.of)) => info.out.status = "not_found"
        /\ info.out.status = "connected" => (Reachable(info.of) /\ ListsSecure(info.of))

====
